---- MODULE Spec2Model ----
(***************************************************************************)
(* Subscriber registry and event broadcast of the tic-tac-toe server       *)
(* (src/events/eventhandler.go) together with its callers in               *)
(* src/handlers/home.go: the event-stream handler GameSSEHandler, which    *)
(* registers a subscriber and removes it when its request context is       *)
(* cancelled, and the request handlers that publish events.                *)
(*                                                                         *)
(* Every HTTP request runs in its own goroutine and the package takes no   *)
(* lock, so the functions are modelled statement by statement: one action  *)
(* per access to the shared table, interleaved freely.  Go slices are      *)
(* modelled as headers (array, length) over shared backing arrays, because *)
(* RemoveGameSubscriber shifts the backing array in place while a          *)
(* broadcast may be ranging over an older header of the same array.        *)
(***************************************************************************)
EXTENDS Integers, Sequences, FiniteSets, TLC

\* ---------------------------------------------------------------- bounds
MaxConns   == 2     \* event-stream connections opened in one run
MaxPubs    == 1     \* publishing requests that may be in flight together
MaxAsync   == 1     \* "go RemoveGameSubscriber" goroutines alive together
MaxEvents  == 1     \* Broadcast calls issued in one run
MaxStatus  == 1     \* of which BroadcastPersonalizedGameStatus calls, per game
BurstExtra == 1     \* calls issued beyond the channel capacity in a burst
MaxReqs    == 2     \* move requests that may be in flight together
MaxMarks   == 3     \* marks on the board after which racing runs issue no move
MaxCells   == 3     \* cells that the moves of racing runs aim at (the first row)
MaxJoins   == 2     \* join requests that may be in flight together
MaxResets  == 1     \* reset requests that may be in flight together

\* ------------------------------------------------------ program constants
ChanCap == 10       \* make(chan models.GameEvent, 10)
MaxPlayersPerGame == 2
BoardCells == 9     \* type GameBoard [3][3]string

PlayerIDs == {"p1", "p2", "p3"}
Emojis    == {"X", "O"}     \* two of models.AvailableEmojis
ReqIDs    == 1..MaxReqs
JoinIDs   == 1..MaxJoins
ResetIDs  == 1..MaxResets

GameIDs  == {"g1", "g2"}
Conns    == 1..MaxConns
Pubs     == 1..MaxPubs
AsyncIDs == (MaxConns + 1)..(MaxConns + MaxAsync)
RemIDs   == Conns \cup AsyncIDs

\* The runs explored: "race" runs have several connections, publishers and
\* removal goroutines and few events; "burst" runs have one connection on
\* one game and enough events to fill its channel and overflow it; the
\* removal goroutines a burst starts are not scheduled within the run.
Race  == [conns |-> MaxConns, pubs |-> MaxPubs, async |-> MaxAsync,
          events |-> MaxEvents, status |-> MaxStatus, games |-> GameIDs,
          reqs |-> 0, marks |-> 0, cells |-> 0, joins |-> 0, resets |-> 0,
          players |-> {}]
Burst == [conns |-> 1, pubs |-> 1, async |-> 0,
          events |-> ChanCap + BurstExtra, status |-> 0, games |-> {"g1"},
          reqs |-> 0, marks |-> 0, cells |-> 0, joins |-> 0, resets |-> 0,
          players |-> {}]
\* "backlog" runs start where two event streams of g1 are open, ChanCap
\* broadcasts have returned, and the first stream's handler has sent all of
\* them on while the second has sent none: one more call is issued.
Backlog == [conns |-> 2, pubs |-> 1, async |-> 0,
            events |-> ChanCap + BurstExtra, status |-> 0, games |-> {"g1"},
            reqs |-> 0, marks |-> 0, cells |-> 0, joins |-> 0, resets |-> 0,
          players |-> {}]
Workloads == {Race, Burst, Backlog}

\* The runs of the game handlers.  "play" runs handle one move request at
\* a time and play games to their end; "endgame" runs start at the seventh
\* move of a game, with a reset in flight at any point of the last three
\* moves; "clash" runs handle MaxReqs move requests in parallel on a board
\* of at most MaxMarks marks; "watch" runs open an event
\* stream while a mark is made and the game is reset; "lobby" runs handle
\* MaxJoins join requests of three visitors in parallel while an event
\* stream is open; "pair" runs begin two games side by side, with a join, a
\* move and a reset in flight.  No stream is opened in play, clash, pair
\* and endgame runs.  Runs with no join request start with two players in the
\* game.
\* A request starts only while fewer than events Broadcast calls have found
\* a subscriber list.
Play  == [conns |-> 0, pubs |-> 0, async |-> 0, events |-> MaxEvents, status |-> 0,
          games |-> {"g1"}, reqs |-> 1, marks |-> BoardCells, cells |-> BoardCells,
          joins |-> 0, resets |-> 0, players |-> {"p1", "p2"}]
Endgame == [conns |-> 0, pubs |-> 0, async |-> 0, events |-> MaxEvents,
            status |-> 0, games |-> {"g1"}, reqs |-> 1, marks |-> BoardCells,
            cells |-> MaxCells, joins |-> 0, resets |-> MaxResets,
            players |-> {"p1", "p2"}]
Clash == [conns |-> 0, pubs |-> 0, async |-> 0, events |-> MaxEvents, status |-> 0,
          games |-> {"g1"}, reqs |-> MaxReqs, marks |-> MaxMarks,
          cells |-> MaxCells, joins |-> 0, resets |-> 0,
          players |-> {"p1", "p2"}]
Watch == [conns |-> 1, pubs |-> MaxPubs, async |-> 0, events |-> MaxEvents, status |-> 0,
          games |-> {"g1"}, reqs |-> 1, marks |-> 1, cells |-> 1,
          joins |-> 0, resets |-> MaxResets, players |-> {"p1", "p2"}]
Lobby == [conns |-> 1, pubs |-> MaxPubs, async |-> 0, events |-> MaxEvents, status |-> 0,
          games |-> {"g1"}, reqs |-> 0, marks |-> 0, cells |-> 0,
          joins |-> MaxJoins, resets |-> 0, players |-> PlayerIDs]
Pair  == [conns |-> 0, pubs |-> 0, async |-> 0, events |-> MaxEvents, status |-> 0,
          games |-> GameIDs, reqs |-> 1, marks |-> 1, cells |-> 1,
          joins |-> 1, resets |-> MaxResets, players |-> {"p1", "p2"}]
GameWorkloads == {Play, Endgame, Clash, Watch, Lobby, Pair}

VARIABLES
    games,           \* game.games: game ID -> the Game struct
    req,             \* GameMoveHandler invocations
    join,            \* EmojiSelectionSubmitHandler invocations
    rst,             \* GameResetHandler invocations
    initialSent,     \* GameSSEHandler: the board sent as the "initial" event
    load,            \* the workload of this run (never changes)
    arrays,          \* heap of slice backing arrays; 0 marks an unused slot
    gameSubscribers, \* the table: game ID -> slice header (or absent)
    subGame,         \* GameSubscriber.GameID, "" before the struct exists
    chanBuf,         \* GameSubscriber.Channel: the buffered events
    chanClosed,      \* number of close() calls on the channel
    ctxDone,         \* GameSubscriber.Context is cancelled
    hPc,             \* GameSSEHandler: position of each connection
    hRead,           \* GameSSEHandler: header read by the pending append
    lastSent,        \* GameSSEHandler: last event passed to sendSSEEvent
    rem,             \* RemoveGameSubscriber invocations (deferred and go)
    pub,             \* Broadcast invocations
    issued,          \* Broadcast calls issued so far, per game
    statusIssued,    \* BroadcastPersonalizedGameStatus calls so far, per game
    crashed,         \* the process died on an unrecovered panic
    unscheduled,     \* subscribers with a removal goroutine that was started
                     \* beyond the modelled slots and has not run yet
    joined,          \* history: the events of its game whose Broadcast call had
                     \* ended when the subscriber's CreateGameSubscriber began
    removed,         \* history: subscribers a RemoveGameSubscriber call returned for
    attempted        \* history: subscribers a Broadcast begun after their
                     \* cancellation has visited and returned from

\* the state of the game package and of the requests that change it
playVars == <<games, req, join, rst>>

vars == <<games, req, join, rst, initialSent, load, arrays, gameSubscribers, subGame, chanBuf, chanClosed, ctxDone,
          hPc, hRead, lastSent, rem, pub, issued, statusIssued, crashed,
          unscheduled, joined, removed, attempted>>

\* the state of the events package and of the event-stream handlers
regVars == <<initialSent, load, arrays, gameSubscribers, subGame, chanBuf,
             chanClosed, ctxDone, hPc, hRead, lastSent, rem, pub, issued,
             statusIssued, crashed, unscheduled, joined, removed, attempted>>

\* ------------------------------------------------------------ data types
ZeroEvent == [Type |-> "", GameID |-> "", n |-> 0]

NilSlice == [exists |-> FALSE, arr |-> 0, len |-> 0]

\* again records that a call for the same subscriber had already returned
\* when this call began
RemIdle == [pc |-> "idle", sub |-> 0, subscribers |-> NilSlice, again |-> FALSE]

PubIdle == [pc |-> "idle", fn |-> "", gameID |-> "", event |-> ZeroEvent,
            subscribers |-> NilSlice, i |-> 0,
            fetched |-> <<>>, cancelled |-> {}, log |-> <<>>]

\* cell (row, col) of the board is entry 3 * row + col + 1
EmptyBoard == [i \in 1..BoardCells |-> ""]

\* the board value of a stream that has not sent its initial event
NoBoard == <<>>

\* CreateGame: Players maps a player ID to the player's emoji, "" when the
\* ID is not a key of the map
NewGame == [Board |-> EmptyBoard, Players |-> [pl \in PlayerIDs |-> ""],
            PlayerOrder |-> <<>>, Status |-> "waiting", CurrentTurn |-> 0,
            Winner |-> "", MoveCount |-> 0]

\* event is the Type of the event the handler broadcasts; frame is the
\* Broadcast invocation a handler is waiting for, 0 when it waits for none
ReqIdle == [pc |-> "idle", gameID |-> "", playerID |-> "", cell |-> 0,
            emoji |-> "", winnerID |-> "", made |-> FALSE, filled |-> FALSE,
            event |-> "", frame |-> 0]

\* first is isFirstPlayerJoining, ready is isGameReadyNow, err the error of
\* AddPlayerToGame; nth (history) is the number of players the game had
\* when this request had put its player in, and cast (history) lists the
\* Types of the events the handler has passed to BroadcastGameEvent
JoinIdle == [pc |-> "idle", gameID |-> "", playerID |-> "", emoji |-> "",
             first |-> FALSE, ready |-> FALSE, err |-> "", frame |-> 0,
             nth |-> 0, cast |-> <<>>]

\* cast (history) lists the Types of the events the handler has passed to
\* its Broadcast calls
RstIdle == [pc |-> "idle", gameID |-> "", frame |-> 0, cast |-> <<>>]

\* ------------------------------------------------------------ Go slices
Cap(a) == IF a = 0 THEN 0 ELSE Len(arrays[a])

Contents(sl) == [j \in 1..sl.len |-> arrays[sl.arr][j]]

GrowCap(old) == IF old = 0 THEN 1 ELSE 2 * old

\* append(sl, s): in place when the array has room, else a new array
AppendArrays(sl, s) ==
    IF sl.len < Cap(sl.arr)
    THEN [arrays EXCEPT ![sl.arr][sl.len + 1] = s]
    ELSE Append(arrays,
                [j \in 1..GrowCap(Cap(sl.arr)) |->
                    IF j <= sl.len THEN arrays[sl.arr][j]
                    ELSE IF j = sl.len + 1 THEN s ELSE 0])

AppendSlice(sl, s) ==
    [exists |-> TRUE,
     arr    |-> IF sl.len < Cap(sl.arr) THEN sl.arr ELSE Len(arrays) + 1,
     len    |-> sl.len + 1]

\* append(sl[:i], sl[i+1:]...) with i the 1-based position of the match:
\* the tail is moved down inside the same backing array
ShiftArrays(sl, i) ==
    [arrays EXCEPT ![sl.arr] =
        [j \in 1..Len(@) |-> IF j >= i /\ j < sl.len THEN @[j + 1] ELSE @[j]]]

ShiftSlice(sl) == [exists |-> TRUE, arr |-> sl.arr, len |-> sl.len - 1]

\* position of the first entry of sl whose ID equals s, 0 when there is none
IndexOf(sl, s) ==
    IF \E j \in 1..sl.len : arrays[sl.arr][j] = s
    THEN CHOOSE j \in 1..sl.len :
            /\ arrays[sl.arr][j] = s
            /\ \A k \in 1..(j - 1) : arrays[sl.arr][k] # s
    ELSE 0

\* ----------------------------------------------------------------- Init
\* nothing has happened yet
InitEmpty ==
    /\ arrays = <<>>
    /\ gameSubscribers = [g \in GameIDs |-> NilSlice]
    /\ subGame = [c \in Conns |-> ""]
    /\ chanBuf = [c \in Conns |-> <<>>]
    /\ hPc = [c \in Conns |-> "idle"]
    /\ lastSent = [c \in Conns |-> ZeroEvent]
    /\ issued = [g \in GameIDs |-> 0]

\* the state reached by: stream 1 and then stream 2 subscribe to g1 (the
\* second append moves the list to a new array of capacity 2), ChanCap
\* BroadcastGameEvent calls return, handler 1 receives every event, handler 2
\* none
InitBacklog ==
    /\ arrays = <<<<1>>, <<1, 2>>>>
    /\ gameSubscribers = [g \in GameIDs |->
                            IF g = "g1" THEN [exists |-> TRUE, arr |-> 2, len |-> 2]
                            ELSE NilSlice]
    /\ subGame = [c \in Conns |-> IF c <= 2 THEN "g1" ELSE ""]
    /\ chanBuf = [c \in Conns |->
                    IF c = 2
                    THEN [j \in 1..ChanCap |-> [Type |-> "move", GameID |-> "g1", n |-> j]]
                    ELSE <<>>]
    /\ hPc = [c \in Conns |-> IF c <= 2 THEN "loop" ELSE "idle"]
    /\ lastSent = [c \in Conns |->
                     IF c = 1 THEN [Type |-> "move", GameID |-> "g1", n |-> ChanCap]
                     ELSE ZeroEvent]
    /\ issued = [g \in GameIDs |-> IF g = "g1" THEN ChanCap ELSE 0]

\* the game after p1 has joined with X and then p2 with O
SeatedGame ==
    [NewGame EXCEPT !.Players = [pl \in PlayerIDs |->
                                   IF pl = "p1" THEN "X"
                                   ELSE IF pl = "p2" THEN "O" ELSE ""],
                    !.PlayerOrder = <<"p1", "p2">>,
                    !.Status = "active"]

\* the game of SeatedGame after p1 has marked (1,0), (2,1) and (2,2) and p2
\* (1,1), (1,2) and (2,0), in turn: the top row is empty, no line is made
EndgameGame ==
    [SeatedGame EXCEPT !.Board = <<"", "", "", "X", "O", "O", "O", "X", "X">>,
                       !.MoveCount = 6]

\* the runs that start with two players in the game
Seated == load.players # {} /\ load.joins = 0

InitState ==
    /\ IF load = Backlog THEN InitBacklog ELSE InitEmpty
    /\ games = [g \in GameIDs |-> IF load = Endgame THEN EndgameGame
                                  ELSE IF Seated THEN SeatedGame
                                  ELSE NewGame]
    /\ req = [r \in ReqIDs |-> ReqIdle]
    /\ join = [j \in JoinIDs |-> JoinIdle]
    /\ rst = [k \in ResetIDs |-> RstIdle]
    /\ initialSent = [c \in Conns |->
                        IF load = Backlog /\ c <= 2 THEN EmptyBoard ELSE NoBoard]
    /\ chanClosed = [c \in Conns |-> 0]
    /\ ctxDone = [c \in Conns |-> FALSE]
    /\ hRead = [c \in Conns |-> NilSlice]
    /\ rem = [k \in RemIDs |-> RemIdle]
    /\ pub = [p \in Pubs |-> PubIdle]
    /\ statusIssued = [g \in GameIDs |-> 0]
    /\ crashed = FALSE
    /\ unscheduled = {}
    /\ joined = [c \in Conns |-> {}]
    /\ removed = {}
    /\ attempted = {}

Init == load \in Workloads /\ InitState

\* Game IDs are random tokens with no meaning of their own: a run names the
\* first game it touches "g1".
Touched(g) == issued[g] > 0 \/ \E c \in Conns : subGame[c] = g

GameInUse(g) == g = "g1" \/ Touched("g1")

\* ------------------------------------------------- CreateGameSubscriber
\* the numbers of the Broadcast calls for g that have returned or panicked
Ended(g) ==
    {n \in 1..issued[g] :
        \A p \in Pubs : \/ pub[p].pc \in {"idle", "panic"}
                        \/ pub[p].gameID # g
                        \/ pub[p].event.n # n}

\* variant of MakeChan that preloads the last event issued for the game
MakeChanReplay(g) ==
    IF issued[g] > 0
    THEN <<[Type |-> "move", GameID |-> g, n |-> issued[g]]>>
    ELSE <<>>

\* Channel: make(chan models.GameEvent, 10): a new channel is empty
MakeChan(g) == <<>>

\* GameSSEHandler up to the creation of the subscriber struct and the read
\* of the table in
\*   gameSubscribers[gameID] = append(gameSubscribers[gameID], subscriber)
\* Subscriber IDs are fresh random tokens: connection c gets the ID c.
SSEOpen(c, g) ==
    /\ ~crashed
    /\ hPc[c] = "idle"
    /\ c <= load.conns
    /\ g \in load.games
    /\ GameInUse(g)
    /\ \A d \in Conns : d < c => hPc[d] # "idle"
    /\ hPc' = [hPc EXCEPT ![c] = "append"]
    /\ subGame' = [subGame EXCEPT ![c] = g]
    /\ hRead' = [hRead EXCEPT ![c] = gameSubscribers[g]]
    /\ chanBuf' = [chanBuf EXCEPT ![c] = MakeChan(g)]
    /\ joined' = [joined EXCEPT ![c] = Ended(g)]
    /\ UNCHANGED <<playVars, initialSent, load, unscheduled, arrays, gameSubscribers, chanClosed, ctxDone,
                   lastSent, rem, pub, issued, statusIssued, crashed,
                   removed, attempted>>

\* the append and the store of its result under the game's key
CreateGameSubscriber(c) ==
    /\ ~crashed
    /\ hPc[c] = "append"
    /\ arrays' = AppendArrays(hRead[c], c)
    /\ gameSubscribers' =
          [gameSubscribers EXCEPT ![subGame[c]] = AppendSlice(hRead[c], c)]
    /\ hPc' = [hPc EXCEPT ![c] = "initial"]
    /\ hRead' = [hRead EXCEPT ![c] = NilSlice]
    /\ UNCHANGED <<playVars, initialSent, load, joined, unscheduled, subGame, chanBuf, chanClosed, ctxDone, lastSent, rem, pub,
                   issued, statusIssued, crashed, removed, attempted>>

\* variant of InitialBoard that sends the board of a new game
InitialBoardBlank(c) == EmptyBoard

\* the Data of the "initial" event: gameData.Board, an array, copied when
\* the event is built
InitialBoard(c) == games[subGame[c]].Board

\* sendInitialGameState(c, gameData): the event is built and written out
SSEInitial(c) ==
    /\ ~crashed
    /\ hPc[c] = "initial"
    /\ initialSent' = [initialSent EXCEPT ![c] = InitialBoard(c)]
    /\ hPc' = [hPc EXCEPT ![c] = "loop"]
    /\ UNCHANGED <<playVars, load, joined, unscheduled, arrays, gameSubscribers,
                   subGame, chanBuf, chanClosed, ctxDone, hRead, lastSent, rem,
                   pub, issued, statusIssued, crashed, removed, attempted>>

\* ------------------------------------------------------- GameSSEHandler
\* the client disconnects: the request context is cancelled
Cancel(c) ==
    /\ ~crashed
    /\ hPc[c] \in {"append", "initial", "loop"}
    /\ ~ctxDone[c]
    /\ ctxDone' = [ctxDone EXCEPT ![c] = TRUE]
    /\ UNCHANGED <<playVars, initialSent, load, joined, unscheduled, arrays, gameSubscribers, subGame, chanBuf, chanClosed,
                   hPc, hRead, lastSent, rem, pub, issued, statusIssued,
                   crashed, removed, attempted>>

\* case event := <-subscriber.Channel: a closed, drained channel yields the
\* zero value
SSERecv(c) ==
    /\ ~crashed
    /\ hPc[c] = "loop"
    /\ chanBuf[c] # <<>> \/ chanClosed[c] > 0
    /\ IF chanBuf[c] # <<>>
       THEN /\ lastSent' = [lastSent EXCEPT ![c] = Head(chanBuf[c])]
            /\ chanBuf' = [chanBuf EXCEPT ![c] = Tail(@)]
       ELSE /\ lastSent' = [lastSent EXCEPT ![c] = ZeroEvent]
            /\ UNCHANGED chanBuf
    /\ UNCHANGED <<playVars, initialSent, load, joined, unscheduled, arrays, gameSubscribers, subGame, chanClosed, ctxDone,
                   hPc, hRead, rem, pub, issued, statusIssued, crashed,
                   removed, attempted>>

\* case <-subscriber.Context.Done(): return, which runs the deferred
\* RemoveGameSubscriber(subscriber)
SSEDone(c) ==
    /\ ~crashed
    /\ hPc[c] = "loop"
    /\ ctxDone[c]
    /\ hPc' = [hPc EXCEPT ![c] = "defer"]
    /\ rem' = [rem EXCEPT ![c] = [pc |-> "lookup", sub |-> c,
                                  subscribers |-> NilSlice,
                                  again |-> c \in removed]]
    /\ UNCHANGED <<playVars, initialSent, load, joined, unscheduled, arrays, gameSubscribers, subGame, chanBuf, chanClosed,
                   ctxDone, hRead, lastSent, pub, issued, statusIssued,
                   crashed, removed, attempted>>

\* ------------------------------------------------- RemoveGameSubscriber
\* the call returns: a deferred call ends its handler, a goroutine ends
RemoveReturn(k) ==
    /\ rem' = [rem EXCEPT ![k] = RemIdle]
    /\ removed' = removed \cup {rem[k].sub}
    /\ hPc' = IF k \in Conns THEN [hPc EXCEPT ![k] = "done"] ELSE hPc

\* subscribers, exists := gameSubscribers[subscriber.GameID]
RemoveLookup(k) ==
    /\ ~crashed
    /\ rem[k].pc = "lookup"
    /\ LET sl == gameSubscribers[subGame[rem[k].sub]] IN
         IF sl.exists
         THEN /\ rem' = [rem EXCEPT ![k].pc = "scan", ![k].subscribers = sl,
                                      ![k].again = rem[k].sub \in removed]
              /\ UNCHANGED <<hPc, removed>>
         ELSE RemoveReturn(k)
    /\ UNCHANGED <<playVars, initialSent, load, joined, unscheduled, arrays, gameSubscribers, subGame, chanBuf, chanClosed,
                   ctxDone, hRead, lastSent, pub, issued, statusIssued,
                   crashed, attempted>>

\* the range loop up to the store of the shortened list
RemoveScan(k) ==
    /\ ~crashed
    /\ rem[k].pc = "scan"
    /\ LET sl == rem[k].subscribers
           i  == IndexOf(sl, rem[k].sub) IN
         IF i = 0
         THEN /\ rem' = [rem EXCEPT ![k].pc = "cleanup"]
              /\ UNCHANGED <<arrays, gameSubscribers>>
         ELSE /\ arrays' = ShiftArrays(sl, i)
              /\ gameSubscribers' =
                    [gameSubscribers EXCEPT ![subGame[rem[k].sub]] = ShiftSlice(sl)]
              /\ rem' = [rem EXCEPT ![k].pc = "close"]
    /\ UNCHANGED <<playVars, initialSent, load, joined, unscheduled, subGame, chanBuf, chanClosed, ctxDone, hPc, hRead,
                   lastSent, pub, issued, statusIssued, crashed, removed,
                   attempted>>

\* close(sub.Channel): closing a closed channel panics.  The panic of a
\* deferred call is recovered by gin's Recovery middleware and only ends the
\* request; in a goroutine started with "go" it ends the process.
RemoveClose(k) ==
    /\ ~crashed
    /\ rem[k].pc = "close"
    /\ chanClosed' = [chanClosed EXCEPT ![rem[k].sub] = @ + 1]
    /\ IF chanClosed[rem[k].sub] = 0
       THEN /\ rem' = [rem EXCEPT ![k].pc = "cleanup"]
            /\ UNCHANGED <<hPc, crashed>>
       ELSE /\ rem' = [rem EXCEPT ![k] = RemIdle]
            /\ hPc' = IF k \in Conns THEN [hPc EXCEPT ![k] = "done"] ELSE hPc
            /\ crashed' = (k \in AsyncIDs)
    /\ UNCHANGED <<playVars, initialSent, load, joined, unscheduled, arrays, gameSubscribers, subGame, chanBuf, ctxDone, hRead,
                   lastSent, pub, issued, statusIssued, removed, attempted>>

\* if len(gameSubscribers[subscriber.GameID]) == 0 { delete(...) }
RemoveCleanup(k) ==
    /\ ~crashed
    /\ rem[k].pc = "cleanup"
    /\ LET g == subGame[rem[k].sub] IN
         gameSubscribers' = IF gameSubscribers[g].len = 0
                            THEN [gameSubscribers EXCEPT ![g] = NilSlice]
                            ELSE gameSubscribers
    /\ RemoveReturn(k)
    /\ UNCHANGED <<playVars, initialSent, load, joined, unscheduled, arrays, subGame, chanBuf, chanClosed, ctxDone, hRead,
                   lastSent, pub, issued, statusIssued, crashed, attempted>>

\* ------------------------------------------------------------ Broadcast
EventOf(fn, g, n) ==
    [Type   |-> IF fn = "BroadcastGameEvent" THEN "move" ELSE "game_status",
     GameID |-> g,
     n      |-> n]

\* the lowest free slot for a "go RemoveGameSubscriber(subscriber)", 0 if none:
\* a goroutine started when all slots are taken is not scheduled in this run
FreeAsync ==
    LET slots == {k \in AsyncIDs : k <= MaxConns + load.async} IN
    IF \E k \in slots : rem[k].pc = "idle"
    THEN CHOOSE k \in slots :
            /\ rem[k].pc = "idle"
            /\ \A j \in slots : j < k => rem[j].pc # "idle"
    ELSE 0

Issued == issued["g1"] + issued["g2"]

\* variant of Lookup that falls back to the list of another game
LookupAnyGame(gameID) ==
    IF gameSubscribers[gameID].exists THEN gameSubscribers[gameID]
    ELSE IF \E h \in GameIDs : gameSubscribers[h].exists
         THEN gameSubscribers[CHOOSE h \in GameIDs : gameSubscribers[h].exists]
         ELSE NilSlice

\* subscribers, exists := gameSubscribers[gameID]
Lookup(gameID) == gameSubscribers[gameID]

\* BroadcastPersonalizedGameStatus: subscribers, exists := gameSubscribers[gameID]
StatusLookup(gameID) == gameSubscribers[gameID]

\* A request handler calls BroadcastGameEvent(g, event) or
\* BroadcastPersonalizedGameStatus(g, game):
\*   subscribers, exists := gameSubscribers[gameID]; if !exists { return }
\* The payload is the number of the call among the calls issued for g.
BroadcastCall(p, g, fn) ==
    /\ ~crashed
    /\ pub[p].pc = "idle"
    /\ p <= load.pubs
    /\ g \in load.games
    /\ GameInUse(g)
    /\ \A q \in Pubs : q < p => pub[q].pc # "idle"
    /\ Issued < load.events
    /\ fn = "BroadcastPersonalizedGameStatus" => statusIssued[g] < load.status
    /\ issued' = [issued EXCEPT ![g] = @ + 1]
    /\ statusIssued' = IF fn = "BroadcastPersonalizedGameStatus"
                       THEN [statusIssued EXCEPT ![g] = @ + 1]
                       ELSE statusIssued
    /\ LET sl == IF fn = "BroadcastGameEvent" THEN Lookup(g) ELSE StatusLookup(g) IN
         pub' = [pub EXCEPT ![p] =
                   [pc          |-> IF sl.exists /\ sl.len > 0 THEN "loop" ELSE "ret",
                    fn          |-> fn,
                    gameID      |-> g,
                    event       |-> EventOf(fn, g, issued[g] + 1),
                    subscribers |-> sl,
                    i           |-> 0,
                    fetched     |-> Contents(sl),
                    cancelled   |-> {c \in Conns : ctxDone[c]},
                    log         |-> <<>>]]
    /\ UNCHANGED <<playVars, initialSent, load, joined, unscheduled, arrays, gameSubscribers, subGame, chanBuf, chanClosed,
                   ctxDone, hPc, hRead, lastSent, rem, crashed, removed,
                   attempted>>

\* variant of SelectOutcomes for a channel that takes ChanCap + 1 events
SelectOutcomesOffByOne(s) ==
    (IF chanClosed[s] > 0 THEN {"panic"}
     ELSE IF Len(chanBuf[s]) <= ChanCap THEN {"sent"} ELSE {})
    \cup (IF ctxDone[s] THEN {"removal"} ELSE {})

\* the cases of the select that are ready for subscriber s: a send is ready
\* when the buffer has room or the channel is closed (it then panics), the
\* receive from Context.Done() when the context is cancelled; default runs
\* only when neither is ready, and Go picks among several ready cases at random
SelectOutcomes(s) ==
    (IF chanClosed[s] > 0 THEN {"panic"}
     ELSE IF Len(chanBuf[s]) < ChanCap THEN {"sent"} ELSE {})
    \cup (IF ctxDone[s] THEN {"removal"} ELSE {})

\* variant of SelectCases for a select without a default case
SelectCasesNoDefault(s) == SelectOutcomes(s)

SelectCases(s) ==
    IF SelectOutcomes(s) = {} THEN {"dropped"} ELSE SelectOutcomes(s)

\* variant of StatusEvent that bakes the receiving subscriber into the event
StatusEventPersonalized(gameID, n, s) ==
    [Type |-> "game_status", GameID |-> gameID, n |-> n, player |-> s]

\* BroadcastPersonalizedGameStatus builds its event inside the loop, once per
\* subscriber s: Type "game_status", the game ID and the game (the payload of
\* call number n)
StatusEvent(gameID, n, s) ==
    [Type |-> "game_status", GameID |-> gameID, n |-> n]

\* the select of BroadcastPersonalizedGameStatus: the same three cases
StatusSelectOutcomes(s) ==
    (IF chanClosed[s] > 0 THEN {"panic"}
     ELSE IF Len(chanBuf[s]) < ChanCap THEN {"sent"} ELSE {})
    \cup (IF ctxDone[s] THEN {"removal"} ELSE {})

StatusSelectCases(s) ==
    IF StatusSelectOutcomes(s) = {} THEN {"dropped"} ELSE StatusSelectOutcomes(s)

\* one iteration of "for _, subscriber := range subscribers { select {...} }"
BroadcastSelect(p) ==
    /\ ~crashed
    /\ pub[p].pc = "loop"
    /\ LET sl == pub[p].subscribers
           s  == arrays[sl.arr][pub[p].i + 1]
           last == pub[p].i + 1 = sl.len
           own  == pub[p].fn = "BroadcastGameEvent"
           event == IF own THEN pub[p].event
                    ELSE StatusEvent(pub[p].gameID, pub[p].event.n, s)
       IN \E o \in (IF own THEN SelectCases(s) ELSE StatusSelectCases(s)) :
            /\ unscheduled' = IF o = "removal" /\ FreeAsync = 0
                              THEN unscheduled \cup {s} ELSE unscheduled
            /\ chanBuf' = IF o = "sent"
                          THEN [chanBuf EXCEPT ![s] = Append(@, event)]
                          ELSE chanBuf
            /\ rem' = IF o = "removal" /\ FreeAsync # 0
                      THEN [rem EXCEPT ![FreeAsync] =
                              [pc |-> "lookup", sub |-> s, subscribers |-> NilSlice,
                               again |-> s \in removed]]
                      ELSE rem
            /\ pub' = [pub EXCEPT
                         ![p].i = @ + 1,
                         ![p].log = Append(@, [sub |-> s, outcome |-> o,
                                              room |-> Len(chanBuf[s]) < ChanCap]),
                         ![p].pc = IF o = "panic" THEN "panic"
                                   ELSE IF last THEN "ret" ELSE "loop"]
    /\ UNCHANGED <<playVars, initialSent, load, joined, arrays, gameSubscribers, subGame, chanClosed, ctxDone,
                   hPc, hRead, lastSent, issued, statusIssued, crashed,
                   removed, attempted>>

\* the call returns to the request handler
BroadcastReturn(p) ==
    /\ ~crashed
    /\ pub[p].pc = "ret"
    /\ attempted' = attempted \cup
          {pub[p].log[j].sub : j \in
              {j \in 1..Len(pub[p].log) : pub[p].log[j].sub \in pub[p].cancelled}}
    /\ pub' = [pub EXCEPT ![p] = PubIdle]
    /\ UNCHANGED <<playVars, initialSent, load, joined, unscheduled, arrays, gameSubscribers, subGame, chanBuf, chanClosed,
                   ctxDone, hPc, hRead, lastSent, rem, issued, statusIssued,
                   crashed, removed>>

\* ----------------------------------------------------------- game logic
\* the lines CheckWinner inspects, in its order: rows, columns, main
\* diagonal, anti-diagonal
Lines == <<<<1, 2, 3>>, <<4, 5, 6>>, <<7, 8, 9>>,
           <<1, 4, 7>>, <<2, 5, 8>>, <<3, 6, 9>>,
           <<1, 5, 9>>, <<3, 5, 7>>>>

\* len(game.Players)
NumPlayers(game) == Cardinality({pl \in PlayerIDs : game.Players[pl] # ""})

\* variant of LineOf that takes two equal cells for a line
LineOfTwo(board, k) ==
    /\ board[Lines[k][1]] # ""
    /\ board[Lines[k][1]] = board[Lines[k][2]]

\* board[a] != "" && board[a] == board[b] && board[b] == board[c]
LineOf(board, k) ==
    /\ board[Lines[k][1]] # ""
    /\ board[Lines[k][1]] = board[Lines[k][2]]
    /\ board[Lines[k][2]] = board[Lines[k][3]]

\* CheckWinner: the values the call can return.  It returns from the first
\* complete line whose emoji belongs to a player, with the ID of a player
\* holding that emoji (the map is ranged over in no fixed order), and ""
\* when there is no such line.
CheckWinner(game) ==
    LET hits == {k \in 1..Len(Lines) :
                    /\ LineOf(game.Board, k)
                    /\ \E pl \in PlayerIDs :
                          game.Players[pl] = game.Board[Lines[k][1]]}
    IN IF hits = {} THEN {""}
       ELSE LET k == CHOOSE h \in hits : \A j \in hits : h <= j
            IN {pl \in PlayerIDs : game.Players[pl] = game.Board[Lines[k][1]]}

\* variant of IsBoardFull that overlooks the last cell
IsBoardFullButLast(game) == \A i \in 1..(BoardCells - 1) : game.Board[i] # ""

IsBoardFull(game) == \A i \in 1..BoardCells : game.Board[i] # ""

IsGameActive(game) == game.Status = "active"

\* variant of IsGameFinished that overlooks a draw
IsGameFinishedWinOnly(game) == game.Status = "finished"

IsGameFinished(game) == game.Status = "finished" \/ game.Status = "draw"

IsGameReady(game) == game.Status \in {"active", "finished", "draw"}

\* GamePageHandler for a game that exists: the response, the game page
\* ("page") or a redirect to the emoji selection ("redirect")
GamePageHandler(game, playerID) ==
    IF game.Players[playerID] = "" THEN "redirect"
    ELSE IF ~IsGameReady(game) THEN "redirect"
    ELSE "page"

GetCurrentPlayerID(game) ==
    IF ~IsGameActive(game) \/ Len(game.PlayerOrder) < 2 THEN ""
    ELSE game.PlayerOrder[game.CurrentTurn + 1]

\* variant of IsPlayersTurn that only asks for an active game
IsPlayersTurnAnyone(game, playerID) == IsGameActive(game)

IsPlayersTurn(game, playerID) ==
    IsGameActive(game) /\ GetCurrentPlayerID(game) = playerID

IsEmojiAvailable(game, emoji) == \A pl \in PlayerIDs : game.Players[pl] # emoji

\* variant of GetGame that returns the first game of the store for any ID
GetGameFirst(id) == "g1"

\* GetGame: the game the store holds under the ID.  A *models.Game is named
\* by the key under which CreateGame stored it; each game has a Players
\* map, a PlayerOrder slice and a board of its own.
GetGame(id) == id

\* AddPlayerToGame: the error it returns, "" for nil
AddPlayerError(game, playerID, emoji) ==
    IF NumPlayers(game) >= MaxPlayersPerGame THEN "game is full"
    ELSE IF game.Players[playerID] # "" THEN "player already in game"
    ELSE IF ~IsEmojiAvailable(game, emoji) THEN "emoji already taken"
    ELSE IF emoji \notin Emojis THEN "invalid emoji"
    ELSE ""

\* game.Players[playerID] = player
PutPlayer(game, playerID, emoji) == [game EXCEPT !.Players[playerID] = emoji]

\* game.PlayerOrder = append(game.PlayerOrder, playerID)
OrderPlayer(game, playerID) == [game EXCEPT !.PlayerOrder = Append(@, playerID)]

\* the update of the status by the number of players
UpdateStatus(game) ==
    IF NumPlayers(game) = 1 THEN [game EXCEPT !.Status = "waiting"]
    ELSE IF NumPlayers(game) = MaxPlayersPerGame
         THEN [game EXCEPT !.Status = "active", !.CurrentTurn = 0,
                           !.MoveCount = 0]
         ELSE game

\* AddPlayerToGame: the game a call that nothing overlaps leaves when it
\* returns nil
AddPlayerToGame(game, playerID, emoji) ==
    UpdateStatus(OrderPlayer(PutPlayer(game, playerID, emoji), playerID))

\* Player IDs and emojis are tokens with no meaning of their own: a run
\* names the visitors of a game p1, p2, p3 in the order of their first join
\* request, and the emojis X, O in the order in which they are first picked.
PlayerSeq == <<"p1", "p2", "p3">>
EmojiSeq  == <<"X", "O">>

SeenPlayers(g) ==
    {pl \in PlayerIDs : games[g].Players[pl] # ""}
    \cup {join[j].playerID : j \in {i \in JoinIDs : join[i].gameID = g}}

SeenEmojis(g) ==
    {games[g].Players[pl] : pl \in PlayerIDs}
    \cup {join[j].emoji : j \in {i \in JoinIDs : join[i].gameID = g}}

JoinInUse(g, pl, emoji) ==
    /\ \/ pl \in SeenPlayers(g)
       \/ \A n \in 1..Len(PlayerSeq) :
             PlayerSeq[n] = pl =>
                \A m \in 1..(n - 1) : PlayerSeq[m] \in SeenPlayers(g)
    /\ \/ emoji \in SeenEmojis(g)
       \/ \A n \in 1..Len(EmojiSeq) :
             EmojiSeq[n] = emoji =>
                \A m \in 1..(n - 1) : EmojiSeq[m] \in SeenEmojis(g)
    /\ g = "g1" \/ SeenPlayers("g1") # {}

\* ------------------------------------- Broadcast calls of the handlers
\* the variables a Broadcast call of a handler leaves alone until its loop
tableVars == <<initialSent, load, arrays, gameSubscribers, subGame, chanBuf,
               chanClosed, ctxDone, hPc, hRead, lastSent, rem, crashed,
               unscheduled, joined, removed>>

castVars == <<pub, issued, statusIssued, attempted>>

\* the lookup of the call finds a list to range over; otherwise the call
\* returns at once ("if !exists { return }", or a loop over no subscriber)
Listening(fn, g) ==
    LET sl == IF fn = "BroadcastGameEvent" THEN Lookup(g) ELSE StatusLookup(g)
    IN sl.exists /\ sl.len > 0

\* In a run with no event stream gameSubscribers stays empty, every
\* Broadcast call of a handler returns at its lookup and changes nothing:
\* the handler then goes from its last write straight to its response.
Deaf == load.conns = 0

\* the lowest Broadcast invocation not in use, 0 if all are in use
FreeFrame ==
    LET slots == {p \in Pubs : p <= load.pubs /\ pub[p].pc = "idle"} IN
    IF slots = {} THEN 0
    ELSE CHOOSE p \in slots : \A q \in slots : p <= q

\* a handler calls fn(g, event) with an event of the given Type and the
\* lookup finds a list: invocation p starts its loop.  The events that
\* reach a loop are numbered per game.
CastBegin(p, fn, g, type) ==
    /\ pub' = [pub EXCEPT ![p] =
                 LET sl == IF fn = "BroadcastGameEvent" THEN Lookup(g)
                           ELSE StatusLookup(g)
                 IN [pc          |-> "loop",
                     fn          |-> fn,
                     gameID      |-> g,
                     event       |-> [Type |-> type, GameID |-> g,
                                      n |-> issued[g] + 1],
                     subscribers |-> sl,
                     i           |-> 0,
                     fetched     |-> Contents(sl),
                     cancelled   |-> {c \in Conns : ctxDone[c]},
                     log         |-> <<>>]]
    /\ issued' = [issued EXCEPT ![g] = @ + 1]
    /\ statusIssued' = IF fn = "BroadcastPersonalizedGameStatus"
                       THEN [statusIssued EXCEPT ![g] = @ + 1]
                       ELSE statusIssued
    /\ UNCHANGED attempted

\* the call of invocation p returns to its handler
CastEnd(p) ==
    /\ pub[p].pc = "ret"
    /\ attempted' = attempted \cup
          {pub[p].log[j].sub : j \in
              {j \in 1..Len(pub[p].log) : pub[p].log[j].sub \in pub[p].cancelled}}
    /\ pub' = [pub EXCEPT ![p] = PubIdle]
    /\ UNCHANGED <<issued, statusIssued>>

\* ------------------------------------------ EmojiSelectionSubmitHandler
\* the handler up to the checks of AddPlayerToGame: isFirstPlayerJoining is
\* read, and a join that the checks reject returns the error with no
\* broadcast
EmojiSelectionSubmitHandler(j, g, pl, emoji) ==
    /\ ~crashed
    /\ join[j].pc = "idle"
    /\ j <= load.joins
    /\ g \in load.games
    /\ pl \in load.players
    /\ \A i \in JoinIDs : i < j => join[i].pc # "idle"
    /\ Issued < load.events
    /\ JoinInUse(g, pl, emoji)
    /\ join' = [join EXCEPT ![j] =
                  IF AddPlayerError(games[GetGame(g)], pl, emoji) = ""
                  THEN [pc |-> "put", gameID |-> g, playerID |-> pl,
                        emoji |-> emoji, first |-> NumPlayers(games[GetGame(g)]) = 0,
                        ready |-> FALSE, err |-> "", frame |-> 0,
                        nth |-> 0, cast |-> <<>>]
                  ELSE [JoinIdle EXCEPT
                          !.pc = "rejected", !.gameID = g,
                          !.err = AddPlayerError(games[GetGame(g)], pl, emoji)]]
    /\ UNCHANGED <<games, req, rst, regVars>>

\* game.Players[playerID] = player
JoinPut(j) ==
    /\ join[j].pc = "put"
    /\ games' = [games EXCEPT ![GetGame(join[j].gameID)] =
                    PutPlayer(@, join[j].playerID, join[j].emoji)]
    /\ join' = [join EXCEPT ![j].pc = "order",
                            ![j].nth = NumPlayers(games'[GetGame(join[j].gameID)])]
    /\ UNCHANGED <<req, rst, regVars>>

\* game.PlayerOrder = append(game.PlayerOrder, playerID)
JoinOrder(j) ==
    /\ join[j].pc = "order"
    /\ games' = [games EXCEPT ![GetGame(join[j].gameID)] = OrderPlayer(@, join[j].playerID)]
    /\ join' = [join EXCEPT ![j].pc = "status"]
    /\ UNCHANGED <<req, rst, regVars>>

\* the status update that ends AddPlayerToGame
JoinStatus(j) ==
    /\ join[j].pc = "status"
    /\ games' = [games EXCEPT ![GetGame(join[j].gameID)] = UpdateStatus(@)]
    /\ join' = [join EXCEPT ![j].pc = "ready"]
    /\ UNCHANGED <<req, rst, regVars>>

\* where the handler goes on after its "player_join" call: a "game_ready"
\* call when this was not the first player and the game is active
AfterPlayerJoin(jn) ==
    IF ~jn.first /\ jn.ready THEN "cast2" ELSE "redirect"

\* the Types of the events the handler passes to BroadcastGameEvent
JoinEvents(jn) ==
    IF AfterPlayerJoin(jn) = "cast2" THEN <<"player_join", "game_ready">>
    ELSE <<"player_join">>

\* isGameReadyNow := gameData.Status == models.GameStatusActive
JoinReady(j) ==
    /\ join[j].pc = "ready"
    /\ LET jn == [join[j] EXCEPT !.ready = IsGameActive(games[GetGame(join[j].gameID)])]
       IN join' = [join EXCEPT ![j] =
                     IF Deaf
                     THEN [jn EXCEPT !.pc = "redirect", !.cast = JoinEvents(jn)]
                     ELSE [jn EXCEPT !.pc = "cast"]]
    /\ UNCHANGED <<games, req, rst, regVars>>

\* BroadcastGameEvent(gameID, "player_join" event) and, at "cast2",
\* BroadcastGameEvent(gameID, "game_ready" event)
JoinCast(j) ==
    /\ ~crashed
    /\ join[j].pc \in {"cast", "cast2"}
    /\ join[j].frame = 0
    /\ LET g == join[j].gameID
           type == IF join[j].pc = "cast" THEN "player_join" ELSE "game_ready"
           next == IF join[j].pc = "cast" THEN AfterPlayerJoin(join[j])
                   ELSE "redirect"
       IN IF Listening("BroadcastGameEvent", g)
          THEN /\ FreeFrame # 0
               /\ CastBegin(FreeFrame, "BroadcastGameEvent", g, type)
               /\ join' = [join EXCEPT ![j].frame = FreeFrame,
                                       ![j].cast = Append(@, type)]
          ELSE /\ join' = [join EXCEPT ![j].pc = next,
                                       ![j].cast = Append(@, type)]
               /\ UNCHANGED castVars
    /\ UNCHANGED <<games, req, rst, tableVars>>

JoinCastReturn(j) ==
    /\ ~crashed
    /\ join[j].frame # 0
    /\ CastEnd(join[j].frame)
    /\ join' = [join EXCEPT
                  ![j].frame = 0,
                  ![j].pc = IF join[j].pc = "cast" THEN AfterPlayerJoin(join[j])
                            ELSE "redirect"]
    /\ UNCHANGED <<games, req, rst, tableVars>>

\* c.Redirect(...) or, for a rejected join, c.JSON(400, ...): the request
\* ends
JoinReturn(j) ==
    /\ join[j].pc \in {"redirect", "rejected"}
    /\ join' = [join EXCEPT ![j] = JoinIdle]
    /\ UNCHANGED <<games, req, rst, regVars>>

\* ------------------------------------------------------ GameMoveHandler
\* GameMoveHandler up to its checks: an unregistered player, a finished
\* game, a player not on turn and an occupied cell each end the request
\* without a move; else the move goes ahead with the player's emoji
MoveCheck(r, g, pl, cell) ==
    /\ ~crashed
    /\ req[r].pc = "idle"
    /\ r <= load.reqs
    /\ g \in load.games
    /\ pl \in load.players
    /\ \A q \in ReqIDs : q < r => req[q].pc # "idle"
    /\ Issued < load.events
    /\ games[GetGame(g)].MoveCount < load.marks
    /\ cell <= load.cells
    /\ LET game == games[GetGame(g)]
           ok == /\ game.Players[pl] # ""
                 /\ ~IsGameFinished(game)
                 /\ IsPlayersTurn(game, pl)
                 /\ game.Board[cell] = ""
       IN req' = [req EXCEPT ![r] =
                    IF ok
                    THEN [ReqIdle EXCEPT !.pc = "place", !.gameID = g,
                                         !.playerID = pl, !.cell = cell,
                                         !.emoji = game.Players[pl]]
                    ELSE [ReqIdle EXCEPT !.pc = "rejected", !.gameID = g]]
    /\ UNCHANGED <<games, join, rst, regVars>>

\* the lines of the board that run through a cell and hold one emoji in
\* all three cells
LinesMade(board, cell, emoji) ==
    {k \in 1..Len(Lines) :
        /\ \E j \in 1..3 : Lines[k][j] = cell
        /\ \A j \in 1..3 : board[Lines[k][j]] = emoji}

\* gameData.Board[row][col] = player.Emoji; the request notes (history)
\* whether this write completed a line of the player's emoji, and whether
\* it filled the last empty cell
MovePlace(r) ==
    /\ req[r].pc = "place"
    /\ games' = [games EXCEPT ![GetGame(req[r].gameID)].Board[req[r].cell] = req[r].emoji]
    /\ req' = [req EXCEPT
                 ![r].pc = "count",
                 ![r].made =
                    /\ games[GetGame(req[r].gameID)].Board[req[r].cell] # req[r].emoji
                    /\ LinesMade(games'[GetGame(req[r].gameID)].Board, req[r].cell,
                                 req[r].emoji) # {},
                 ![r].filled =
                    /\ games[GetGame(req[r].gameID)].Board[req[r].cell] = ""
                    /\ IsBoardFull(games'[GetGame(req[r].gameID)])]
    /\ UNCHANGED <<join, rst, regVars>>

\* gameData.MoveCount++
MoveCountUp(r) ==
    /\ req[r].pc = "count"
    /\ games' = [games EXCEPT ![GetGame(req[r].gameID)].MoveCount = @ + 1]
    /\ req' = [req EXCEPT ![r].pc = "judge"]
    /\ UNCHANGED <<join, rst, regVars>>

\* winnerID := game.CheckWinner(gameData)
MoveJudge(r) ==
    /\ req[r].pc = "judge"
    /\ \E w \in CheckWinner(games[GetGame(req[r].gameID)]) :
          req' = [req EXCEPT ![r].pc = "settle", ![r].winnerID = w]
    /\ UNCHANGED <<games, join, rst, regVars>>

\* the three branches up to their Broadcast calls: a winner ends the game
\* ("game_winner" event), a full board draws it ("game_draw"), else the turn
\* passes ("move")
MoveSettle(r) ==
    /\ req[r].pc = "settle"
    /\ LET g == GetGame(req[r].gameID) IN
         /\ games' = [games EXCEPT ![g] =
                        IF req[r].winnerID # ""
                        THEN [@ EXCEPT !.Status = "finished",
                                       !.Winner = req[r].winnerID]
                        ELSE IF IsBoardFull(@)
                             THEN [@ EXCEPT !.Status = "draw"]
                             ELSE [@ EXCEPT !.CurrentTurn = (@ + 1) % 2]]
         /\ req' = [req EXCEPT
                      ![r].pc = IF Deaf THEN "render" ELSE "cast",
                      ![r].event = IF req[r].winnerID # "" THEN "game_winner"
                                   ELSE IF IsBoardFull(games[g]) THEN "game_draw"
                                   ELSE "move"]
    /\ UNCHANGED <<join, rst, regVars>>

\* events.BroadcastGameEvent(gameID, event) and, at "status",
\* events.BroadcastPersonalizedGameStatus(gameID, gameData)
MoveCast(r) ==
    /\ ~crashed
    /\ req[r].pc \in {"cast", "status"}
    /\ req[r].frame = 0
    /\ LET g  == req[r].gameID
           fn == IF req[r].pc = "cast" THEN "BroadcastGameEvent"
                 ELSE "BroadcastPersonalizedGameStatus"
           type == IF req[r].pc = "cast" THEN req[r].event ELSE "game_status"
           next == IF req[r].pc = "cast" THEN "status" ELSE "render"
       IN IF Listening(fn, g)
          THEN /\ FreeFrame # 0
               /\ CastBegin(FreeFrame, fn, g, type)
               /\ req' = [req EXCEPT ![r].frame = FreeFrame]
          ELSE /\ req' = [req EXCEPT ![r].pc = next]
               /\ UNCHANGED castVars
    /\ UNCHANGED <<games, join, rst, tableVars>>

MoveCastReturn(r) ==
    /\ ~crashed
    /\ req[r].frame # 0
    /\ CastEnd(req[r].frame)
    /\ req' = [req EXCEPT
                 ![r].frame = 0,
                 ![r].pc = IF req[r].pc = "cast" THEN "status" ELSE "render"]
    /\ UNCHANGED <<games, join, rst, tableVars>>

\* renderGameBoard(c, gameID): the request ends
MoveReturn(r) ==
    /\ req[r].pc \in {"render", "rejected"}
    /\ req' = [req EXCEPT ![r] = ReqIdle]
    /\ UNCHANGED <<games, join, rst, regVars>>

\* ----------------------------------------------------- GameResetHandler
\* gameData.Board = models.GameBoard{}; gameData.Status = active
ResetBoard(game) == [game EXCEPT !.Board = EmptyBoard, !.Status = "active"]

\* gameData.Winner = ""; gameData.MoveCount = 0; gameData.CurrentTurn = 0
ResetCounters(game) ==
    [game EXCEPT !.Winner = "", !.MoveCount = 0, !.CurrentTurn = 0]

\* the five assignments of a handler that nothing overlaps
ResetGame(game) == ResetCounters(ResetBoard(game))

\* GameResetHandler up to its assignments to Board and Status.  The five
\* assignments are made with no lock; the model lets the steps of other
\* requests in after the second one.
GameResetHandler(k, g) ==
    /\ ~crashed
    /\ rst[k].pc = "idle"
    /\ k <= load.resets
    /\ g \in load.games
    /\ \A i \in ResetIDs : i < k => rst[i].pc # "idle"
    /\ Issued < load.events
    /\ games' = [games EXCEPT ![GetGame(g)] = ResetBoard(@)]
    /\ rst' = [rst EXCEPT ![k] = [RstIdle EXCEPT !.pc = "rest", !.gameID = g]]
    /\ UNCHANGED <<req, join, regVars>>

\* the assignments to Winner, MoveCount and CurrentTurn; in a run with no
\* event stream the rest of the handler
ResetRest(k) ==
    /\ rst[k].pc = "rest"
    /\ games' = [games EXCEPT ![GetGame(rst[k].gameID)] = ResetCounters(@)]
    /\ rst' = [rst EXCEPT ![k] =
                 IF Deaf THEN RstIdle
                 ELSE [@ EXCEPT !.pc = "cast"]]
    /\ UNCHANGED <<req, join, regVars>>

\* events.BroadcastGameEvent(gameID, "reset" event) and, at "status",
\* events.BroadcastPersonalizedGameStatus(gameID, gameData)
ResetCast(k) ==
    /\ ~crashed
    /\ rst[k].pc \in {"cast", "status"}
    /\ rst[k].frame = 0
    /\ LET g  == rst[k].gameID
           fn == IF rst[k].pc = "cast" THEN "BroadcastGameEvent"
                 ELSE "BroadcastPersonalizedGameStatus"
           type == IF rst[k].pc = "cast" THEN "reset" ELSE "game_status"
           next == IF rst[k].pc = "cast" THEN "status" ELSE "render"
       IN IF Listening(fn, g)
          THEN /\ FreeFrame # 0
               /\ CastBegin(FreeFrame, fn, g, type)
               /\ rst' = [rst EXCEPT ![k].frame = FreeFrame,
                                     ![k].cast = Append(@, type)]
          ELSE /\ rst' = [rst EXCEPT ![k].pc = next,
                                     ![k].cast = Append(@, type)]
               /\ UNCHANGED castVars
    /\ UNCHANGED <<games, req, join, tableVars>>

ResetCastReturn(k) ==
    /\ ~crashed
    /\ rst[k].frame # 0
    /\ CastEnd(rst[k].frame)
    /\ rst' = [rst EXCEPT
                 ![k].frame = 0,
                 ![k].pc = IF rst[k].pc = "cast" THEN "status" ELSE "render"]
    /\ UNCHANGED <<games, req, join, tableVars>>

\* renderGameBoard(c, gameID): the request ends
ResetReturn(k) ==
    /\ rst[k].pc = "render"
    /\ rst' = [rst EXCEPT ![k] = RstIdle]
    /\ UNCHANGED <<games, req, join, regVars>>

\* ------------------------------------------------------- specification
Fns == {"BroadcastGameEvent", "BroadcastPersonalizedGameStatus"}

Next ==
    \/ \E c \in Conns, g \in GameIDs : SSEOpen(c, g)
    \/ \E c \in Conns : CreateGameSubscriber(c)
    \/ \E c \in Conns : SSEInitial(c)
    \/ \E c \in Conns : Cancel(c)
    \/ \E c \in Conns : SSERecv(c)
    \/ \E c \in Conns : SSEDone(c)
    \/ \E k \in RemIDs : RemoveLookup(k)
    \/ \E k \in RemIDs : RemoveScan(k)
    \/ \E k \in RemIDs : RemoveClose(k)
    \/ \E k \in RemIDs : RemoveCleanup(k)
    \/ \E p \in Pubs, g \in GameIDs, fn \in Fns : BroadcastCall(p, g, fn)
    \/ \E p \in Pubs : BroadcastSelect(p)
    \/ \E p \in Pubs : BroadcastReturn(p)

Spec == Init /\ [][Next]_vars

\* the game handlers and the event-stream handler
NextGame ==
    \/ \E j \in JoinIDs, g \in GameIDs, pl \in PlayerIDs, e \in Emojis :
          EmojiSelectionSubmitHandler(j, g, pl, e)
    \/ \E j \in JoinIDs : JoinPut(j)
    \/ \E j \in JoinIDs : JoinOrder(j)
    \/ \E j \in JoinIDs : JoinStatus(j)
    \/ \E j \in JoinIDs : JoinReady(j)
    \/ \E j \in JoinIDs : JoinCast(j)
    \/ \E j \in JoinIDs : JoinCastReturn(j)
    \/ \E j \in JoinIDs : JoinReturn(j)
    \/ \E r \in ReqIDs, g \in GameIDs, pl \in PlayerIDs, cell \in 1..BoardCells :
          MoveCheck(r, g, pl, cell)
    \/ \E r \in ReqIDs : MovePlace(r)
    \/ \E r \in ReqIDs : MoveCountUp(r)
    \/ \E r \in ReqIDs : MoveJudge(r)
    \/ \E r \in ReqIDs : MoveSettle(r)
    \/ \E r \in ReqIDs : MoveCast(r)
    \/ \E r \in ReqIDs : MoveCastReturn(r)
    \/ \E r \in ReqIDs : MoveReturn(r)
    \/ \E k \in ResetIDs, g \in GameIDs : GameResetHandler(k, g)
    \/ \E k \in ResetIDs : ResetRest(k)
    \/ \E k \in ResetIDs : ResetCast(k)
    \/ \E k \in ResetIDs : ResetCastReturn(k)
    \/ \E k \in ResetIDs : ResetReturn(k)
    \/ \E c \in Conns, g \in GameIDs : SSEOpen(c, g)
    \/ \E c \in Conns : CreateGameSubscriber(c)
    \/ \E c \in Conns : SSEInitial(c)
    \/ \E c \in Conns : SSERecv(c)
    \/ \E p \in Pubs : BroadcastSelect(p)

InitGame == load \in GameWorkloads /\ InitState

SpecGame == InitGame /\ [][NextGame]_vars

\* only the burst workload
InitBurst == Init /\ load = Burst

SpecBurst == InitBurst /\ [][Next]_vars

\* ------------------------------------------------------------- helpers
\* the subscribers listed under g, in order
Listed(g) == Contents(gameSubscribers[g])

Registered(c) ==
    /\ subGame[c] \in GameIDs
    /\ \E j \in 1..gameSubscribers[subGame[c]].len : Listed(subGame[c])[j] = c

\* the subscriber a publisher's loop visits next
Current(p) == arrays[pub[p].subscribers.arr][pub[p].i + 1]

NoRemoveInProgress == \A k \in RemIDs : rem[k].pc = "idle"

\* ---------------------------------------------------------------- C1
\* C1: isolation - every event held by a subscriber's channel was broadcast
\* to the game the subscriber is registered for, never to another game.
C1_Isolation ==
    \A c \in Conns : \A j \in 1..Len(chanBuf[c]) :
        chanBuf[c][j].GameID = subGame[c]

\* an event of g1 is queued for a g1 subscriber while g2 has a registered,
\* live subscriber whose channel stayed empty
C1_Witness ==
    \E c, d \in Conns :
        /\ subGame[c] = "g1" /\ subGame[d] = "g2"
        /\ chanBuf[c] # <<>> /\ chanBuf[c][1].GameID = "g1"
        /\ hPc[d] = "loop" /\ Registered(d) /\ ~ctxDone[d]
        /\ chanBuf[d] = <<>> /\ lastSent[d] = ZeroEvent

\* ---------------------------------------------------------------- C2
\* C2: at-most-capacity queueing - a channel never holds more than ChanCap
\* (10) events, and a loop iteration that meets a full channel of a
\* subscriber that is not cancelled leaves that channel unchanged and goes on
\* (to the next subscriber or to the return) without a panic.
C2_DropStep ==
    \A p \in Pubs :
        (/\ pub[p].pc = "loop"
         /\ pub'[p].i = pub[p].i + 1
         /\ Len(chanBuf[Current(p)]) = ChanCap
         /\ ~ctxDone[Current(p)])
        => /\ chanBuf'[Current(p)] = chanBuf[Current(p)]
           /\ pub'[p].pc \in {"loop", "ret"}
           /\ pub'[p].log[pub'[p].i].outcome = "dropped"

C2_AtMostCapacity ==
    /\ [](\A c \in Conns : Len(chanBuf[c]) <= ChanCap)
    /\ [][C2_DropStep]_vars

\* eleven broadcasts were issued and returned with nothing consumed: the
\* channel holds exactly the first ten
C2_Witness ==
    /\ issued["g1"] = ChanCap + 1
    /\ \A p \in Pubs : pub[p].pc = "idle"
    /\ hPc[1] = "loop" /\ ~ctxDone[1] /\ lastSent[1] = ZeroEvent
    /\ chanBuf[1] = [j \in 1..ChanCap |-> EventOf("BroadcastGameEvent", "g1", j)]

\* ---------------------------------------------------------------- C3
\* C3: registry consistency - while the process runs and no
\* RemoveGameSubscriber call is in progress, a game ID is a key of the table
\* iff its list is non-empty.
C3_RegistryConsistency ==
    (~crashed /\ NoRemoveInProgress) =>
        \A g \in GameIDs : gameSubscribers[g].exists <=> gameSubscribers[g].len > 0

\* ---------------------------------------------------------------- C4
\* C4: non-blocking publish - a Broadcast call in its loop always has a
\* next subscriber to visit and can always take that iteration, whatever
\* the subscriber's state (full, never received from, cancelled, closed):
\* the loop ends after at most len - i further iterations.
C4_NonBlocking ==
    \A p \in Pubs :
        pub[p].pc = "loop" =>
            /\ pub[p].i < pub[p].subscribers.len
            /\ crashed \/ ENABLED BroadcastSelect(p)

\* a call returned after it met a full channel of a live subscriber
C4_Witness ==
    \E p \in Pubs :
        /\ pub[p].pc = "ret"
        /\ \E j \in 1..Len(pub[p].log) : pub[p].log[j].outcome = "dropped"

\* ---------------------------------------------------------------- C5
\* C5: cancellation convergence - once a Broadcast that began after the
\* cancellation of a subscriber has visited it and returned, and every
\* removal scheduled for it has run, the subscriber is no longer listed and
\* its channel is closed.
C5_CancellationConvergence ==
    ~crashed =>
        \A s \in attempted :
            (/\ s \notin unscheduled
             /\ \A k \in RemIDs : rem[k].pc = "idle" \/ rem[k].sub # s)
            => (~Registered(s) /\ chanClosed[s] >= 1)

\* ---------------------------------------------------------------- C6
\* C6: fan-out delivery - when a BroadcastGameEvent call returns, every
\* subscriber that was listed for the game when the call fetched the list
\* and is not cancelled was visited exactly once, and got the event unless
\* its channel was full.
C6_FanOut ==
    \A p \in Pubs :
        (pub[p].pc = "ret" /\ pub[p].fn = "BroadcastGameEvent") =>
            \A x \in 1..Len(pub[p].fetched) :
                LET s == pub[p].fetched[x]
                    visits == {j \in 1..Len(pub[p].log) : pub[p].log[j].sub = s}
                IN ~ctxDone[s] =>
                     /\ Cardinality(visits) = 1
                     /\ \A j \in visits :
                           pub[p].log[j].room => pub[p].log[j].outcome = "sent"

\* ---------------------------------------------------------------- C7
\* C7: per-subscriber FIFO - every event a handler takes from its channel
\* was issued later than the event it took before (the events of one game
\* are numbered in the order of the Broadcast calls): none is reordered and
\* none is delivered twice.
C7_DequeueInOrder ==
    \A c \in Conns :
        (/\ hPc[c] = "loop"
         /\ chanBuf[c] # <<>>
         /\ chanBuf'[c] = Tail(chanBuf[c])
         /\ lastSent'[c] = Head(chanBuf[c])
         /\ lastSent[c] # ZeroEvent)
        => Head(chanBuf[c]).n > lastSent[c].n

C7_Fifo == [][C7_DequeueInOrder]_vars

\* ---------------------------------------------------------------- C8
\* C8: no Broadcast call ever sends on a closed channel (which panics and
\* fails the request that called it).
C8_NoSendOnClosed == \A p \in Pubs : pub[p].pc # "panic"

\* ---------------------------------------------------------------- C9
\* C9: the channel of a subscriber is closed at most once.
C9_ClosedOnce == \A c \in Conns : chanClosed[c] <= 1

\* ---------------------------------------------------------------- C10
\* C10: no lost update - while the process runs and no
\* CreateGameSubscriber or RemoveGameSubscriber call is in progress, the
\* table lists exactly the subscribers that were created and for which no
\* RemoveGameSubscriber call has returned, each of them once.
Created(c) == hPc[c] \in {"initial", "loop", "defer", "done"}

C10_NoLostUpdate ==
    (/\ ~crashed
     /\ NoRemoveInProgress
     /\ \A c \in Conns : hPc[c] # "append")
    => /\ \A c \in Conns : Registered(c) <=> (Created(c) /\ c \notin removed)
       /\ \A g \in GameIDs : \A i, j \in 1..gameSubscribers[g].len :
             Listed(g)[i] = Listed(g)[j] => i = j

\* ---------------------------------------------------------------- C11
\* C11: double deregistration is a no-op - every step of a
\* RemoveGameSubscriber(s) call that began after an earlier call for s had
\* returned leaves the table, the lists and every channel unchanged: it
\* closes no channel again and raises no panic.
C11_SecondRemoveStep ==
    \A k \in RemIDs :
        (rem[k].again /\ rem'[k] # rem[k]) =>
            /\ UNCHANGED <<gameSubscribers, arrays, chanBuf, chanClosed>>
            /\ crashed' = crashed

C11_DoubleRemoveNoOp == [][C11_SecondRemoveStep]_vars

\* ---------------------------------------------------------------- C12
\* C12: broadcast to an unwatched game - a Broadcast call on a game whose
\* list is absent or empty goes straight to its return, and neither the call
\* nor its return changes the table, a list, a channel or starts a removal.
C12_UnwatchedStep ==
    \A p \in Pubs :
        /\ (/\ pub[p].pc = "idle"
            /\ pub'[p].pc # "idle"
            /\ gameSubscribers[pub'[p].gameID].len = 0)
           => /\ pub'[p].pc = "ret"
              /\ UNCHANGED <<gameSubscribers, arrays, chanBuf, chanClosed, rem,
                             unscheduled, crashed>>
        /\ (/\ pub[p].pc = "ret"
            /\ pub[p].log = <<>>
            /\ pub'[p] # pub[p])
           => /\ pub'[p].pc = "idle"
              /\ UNCHANGED <<gameSubscribers, arrays, chanBuf, chanClosed, rem,
                             unscheduled, crashed>>

C12_UnwatchedNoEffect == [][C12_UnwatchedStep]_vars

\* a call on g2, which has no key, is about to return while g1 has a
\* registered subscriber whose channel is still empty
C12_Witness ==
    \E p \in Pubs, c \in Conns :
        /\ pub[p].pc = "ret" /\ pub[p].gameID = "g2" /\ pub[p].log = <<>>
        /\ ~gameSubscribers["g2"].exists
        /\ subGame[c] = "g1" /\ Registered(c) /\ chanBuf[c] = <<>>

\* ---------------------------------------------------------------- C13
\* C13: no replay - no event that a subscriber holds in its channel or has
\* dequeued comes from a Broadcast call that had ended before the
\* subscriber's CreateGameSubscriber call began.
C13_NoReplay ==
    \A c \in Conns :
        /\ \A j \in 1..Len(chanBuf[c]) :
              chanBuf[c][j].GameID = subGame[c] => chanBuf[c][j].n \notin joined[c]
        /\ (lastSent[c] # ZeroEvent /\ lastSent[c].GameID = subGame[c])
              => lastSent[c].n \notin joined[c]

\* a subscriber that registered after a broadcast to its game had ended has
\* dequeued a later event
C13_Witness ==
    \E c \in Conns :
        /\ joined[c] # {}
        /\ lastSent[c] # ZeroEvent
        /\ lastSent[c].GameID = subGame[c]

\* ---------------------------------------------------------------- C14
\* C14: per-subscriber load shedding - a loop iteration drops the event
\* only for a subscriber whose channel holds ChanCap events and whose context
\* is not cancelled; the drop changes nothing but the position of the loop,
\* which goes on to the next subscriber; and a call that dropped its event
\* for a subscriber never delivers it to that subscriber later.
C14_ShedStep ==
    \A p \in Pubs :
        (/\ pub[p].pc = "loop"
         /\ pub'[p].i = pub[p].i + 1
         /\ pub'[p].log[pub'[p].i].outcome = "dropped")
        => /\ Len(chanBuf[Current(p)]) = ChanCap
           /\ ~ctxDone[Current(p)]
           /\ chanClosed[Current(p)] = 0
           /\ UNCHANGED <<gameSubscribers, arrays, chanBuf, chanClosed, rem,
                          unscheduled, crashed>>
           /\ pub'[p].pc = IF pub'[p].i = pub[p].subscribers.len
                           THEN "ret" ELSE "loop"

C14_NoRetry ==
    \A p \in Pubs : \A i, j \in 1..Len(pub[p].log) :
        (/\ i < j
         /\ pub[p].log[i].sub = pub[p].log[j].sub
         /\ pub[p].log[i].outcome = "dropped")
        => pub[p].log[j].outcome # "sent"

C14_LoadShedding == [][C14_ShedStep]_vars /\ []C14_NoRetry

\* ---------------------------------------------------------------- C15
\* C15: BroadcastPersonalizedGameStatus performs the fan-out of
\* BroadcastGameEvent - in every state it fetches the same list and has the
\* same select cases ready for every subscriber; each of its steps changes
\* the table, the lists and the channels exactly as a BroadcastGameEvent
\* step with the game_status event of the call would; and the event it puts
\* on a channel does not depend on the subscriber.
C15_SameChoices ==
    /\ \A g \in GameIDs : StatusLookup(g) = Lookup(g)
    /\ \A c \in Conns : StatusSelectCases(c) = SelectCases(c)
    /\ \A c, d \in Conns : \A j \in 1..Len(chanBuf[c]), k \in 1..Len(chanBuf[d]) :
          (/\ chanBuf[c][j].Type = "game_status"
           /\ chanBuf[d][k].Type = "game_status"
           /\ chanBuf[c][j].GameID = chanBuf[d][k].GameID
           /\ chanBuf[c][j].n = chanBuf[d][k].n)
          => chanBuf[c][j] = chanBuf[d][k]

C15_StatusStep ==
    \A p \in Pubs :
        /\ (/\ pub[p].pc = "idle"
            /\ pub'[p].pc # "idle"
            /\ pub'[p].fn = "BroadcastPersonalizedGameStatus")
           => /\ pub'[p].subscribers = Lookup(pub'[p].gameID)
              /\ UNCHANGED <<gameSubscribers, arrays, chanBuf, chanClosed, rem>>
        /\ (/\ pub[p].pc = "loop"
            /\ pub[p].fn = "BroadcastPersonalizedGameStatus"
            /\ pub'[p].i = pub[p].i + 1)
           => LET s == Current(p)
                  o == pub'[p].log[pub'[p].i].outcome
                  e == EventOf(pub[p].fn, pub[p].gameID, pub[p].event.n)
              IN /\ o \in SelectCases(s)
                 /\ chanBuf' = IF o = "sent"
                               THEN [chanBuf EXCEPT ![s] = Append(@, e)]
                               ELSE chanBuf
                 /\ UNCHANGED <<gameSubscribers, arrays, chanClosed>>
                 /\ rem' # rem => o = "removal"

C15_SameFanOut == []C15_SameChoices /\ [][C15_StatusStep]_vars

\* one BroadcastPersonalizedGameStatus call has put its event on the
\* channels of two subscribers of the game
C15_Witness ==
    \E c, d \in Conns :
        /\ c # d
        /\ chanBuf[c] # <<>> /\ chanBuf[d] # <<>>
        /\ chanBuf[c][1].Type = "game_status"
        /\ chanBuf[d][1] = chanBuf[c][1]

\* --------------------------------------------------------------- C16
\* C16: snapshot on subscribe - a handler that has not yet emitted its
\* "initial" event has emitted nothing, whatever its channel holds; the step
\* that emits the "initial" event sends the board the game has at that
\* moment and takes nothing from the channel; and every event taken from the
\* channel is emitted after the "initial" event.
C16_NothingBeforeInitial ==
    \A c \in Conns :
        /\ hPc[c] \in {"idle", "append", "initial"} =>
              (initialSent[c] = NoBoard /\ lastSent[c] = ZeroEvent)
        /\ lastSent[c] # ZeroEvent => initialSent[c] # NoBoard

C16_InitialStep ==
    \A c \in Conns :
        initialSent'[c] # initialSent[c] =>
            /\ initialSent[c] = NoBoard
            /\ initialSent'[c] = games[subGame[c]].Board
            /\ initialSent'[c] = games'[subGame[c]].Board
            /\ chanBuf'[c] = chanBuf[c]
            /\ lastSent'[c] = ZeroEvent

C16_SnapshotOnSubscribe == []C16_NothingBeforeInitial /\ [][C16_InitialStep]_vars

\* a stream opened on a game in progress sent a board with a mark on it as
\* its "initial" event and then sent on an event from its channel
C16_Witness ==
    \E c \in Conns :
        /\ hPc[c] = "loop"
        /\ initialSent[c] # NoBoard /\ initialSent[c] # EmptyBoard
        /\ lastSent[c] # ZeroEvent

\* --------------------------------------------------------------- C17
\* C17: turn enforcement - a move request changes the board only while the
\* game is active and the requester is the player at PlayerOrder[CurrentTurn];
\* and when a request that made a move leaves the game active (no win, board
\* not full), the turn is then the other player's.
C17_PlaceStep ==
    \A r \in ReqIDs :
        (/\ req[r].pc = "place" /\ req'[r].pc = "count"
         /\ games'[req[r].gameID].Board # games[req[r].gameID].Board)
        => IsPlayersTurn(games[req[r].gameID], req[r].playerID)

C17_PassStep ==
    \A r \in ReqIDs :
        (/\ req[r].pc = "settle" /\ req'[r].pc # "settle"
         /\ IsGameActive(games'[req[r].gameID]))
        => GetCurrentPlayerID(games'[req[r].gameID]) # req[r].playerID

C17_TurnEnforcement == [][C17_PlaceStep /\ C17_PassStep]_vars

\* --------------------------------------------------------------- C18
\* C18: winner detection - CheckWinner returns "" on every board with no
\* line of three equal non-empty cells; and a move request whose mark
\* completed a line of the mover's emoji sets Status to finished and Winner
\* to the mover's ID when it settles the move.
C18_Line(board, k) ==
    /\ board[Lines[k][1]] # ""
    /\ board[Lines[k][2]] = board[Lines[k][1]]
    /\ board[Lines[k][3]] = board[Lines[k][1]]

C18_NoLineNoWinner ==
    \A g \in GameIDs :
        (\A k \in 1..Len(Lines) : ~C18_Line(games[g].Board, k))
        => CheckWinner(games[g]) = {""}

C18_WinStep ==
    \A r \in ReqIDs :
        (req[r].pc = "settle" /\ req'[r].pc # "settle" /\ req[r].made) =>
            /\ games'[req[r].gameID].Status = "finished"
            /\ games'[req[r].gameID].Winner = req[r].playerID

C18_WinnerDetection == []C18_NoLineNoWinner /\ [][C18_WinStep]_vars

\* --------------------------------------------------------------- C19
\* C19: no moves after game over - while a game's Status is finished or
\* draw, no step of a move request changes its Board, MoveCount, CurrentTurn,
\* Winner or Status (only a reset does).
C19_GameOverStep ==
    \A g \in GameIDs :
        (IsGameFinished(games[g]) /\ req' # req) =>
            /\ games'[g].Board = games[g].Board
            /\ games'[g].MoveCount = games[g].MoveCount
            /\ games'[g].CurrentTurn = games[g].CurrentTurn
            /\ games'[g].Winner = games[g].Winner
            /\ games'[g].Status = games[g].Status

C19_NoMovesAfterGameOver == [][C19_GameOverStep]_vars

\* --------------------------------------------------------------- C20
\* C20: draw detection - a move request whose mark filled the last empty
\* cell of a board that then has no line of three sets Status to draw and
\* leaves Winner empty when it settles the move; Status is draw only on a
\* full board; and a request whose mark completed a line never sets Status
\* to draw.
C20_DrawStep ==
    \A r \in ReqIDs :
        (req[r].pc = "settle" /\ req'[r].pc # "settle") =>
            /\ (req[r].filled /\ ~req[r].made) =>
                  /\ games'[req[r].gameID].Status = "draw"
                  /\ games'[req[r].gameID].Winner = ""
            /\ req[r].made => games'[req[r].gameID].Status # "draw"

C20_DrawOnlyWhenFull ==
    \A g \in GameIDs : games[g].Status = "draw" => IsBoardFull(games[g])

C20_DrawDetection == []C20_DrawOnlyWhenFull /\ [][C20_DrawStep]_vars

\* --------------------------------------------------------------- C21
\* C21: two-player limit - in every reachable state a game has at most two
\* players and at most two entries in PlayerOrder, also while join requests
\* run in parallel; and a join request that finds two players in the game is
\* rejected with "game is full" and leaves the game as it is.
C21_AtMostTwo ==
    \A g \in GameIDs :
        /\ NumPlayers(games[g]) <= MaxPlayersPerGame
        /\ Len(games[g].PlayerOrder) <= MaxPlayersPerGame

C21_FullStep ==
    \A j \in JoinIDs :
        (/\ join[j].pc = "idle" /\ join'[j].pc # "idle"
         /\ NumPlayers(games[join'[j].gameID]) >= MaxPlayersPerGame)
        => /\ join'[j].pc = "rejected"
           /\ join'[j].err = "game is full"
           /\ games' = games

C21_TwoPlayerLimit == []C21_AtMostTwo /\ [][C21_FullStep]_vars

\* --------------------------------------------------------------- C22
\* C22: emoji uniqueness - in every reachable state no two players of one
\* game have the same emoji; and a join request with an emoji that a player
\* of the game has is rejected with an error and leaves the game as it is.
C22_Unique ==
    \A g \in GameIDs : \A pl \in PlayerIDs, ql \in PlayerIDs :
        (pl # ql /\ games[g].Players[pl] # "") =>
            games[g].Players[pl] # games[g].Players[ql]

C22_TakenStep ==
    \A j \in JoinIDs : \A g \in GameIDs, e \in Emojis :
        (/\ join[j].pc = "idle" /\ join'[j].pc # "idle"
         /\ EmojiSelectionSubmitHandler(j, g, join'[j].playerID, e)
         /\ \E pl \in PlayerIDs : games[g].Players[pl] = e)
        => /\ join'[j].pc = "rejected"
           /\ join'[j].err # ""
           /\ games' = games

C22_EmojiUniqueness == []C22_Unique /\ [][C22_TakenStep]_vars

\* --------------------------------------------------------------- C23
\* C23: game page gating - GamePageHandler serves the game page exactly to
\* a requester who is a player of the game (with an emoji) while the status
\* is active, finished or draw, and redirects to the emoji selection in
\* every other case; so while no second player has joined, the first
\* player is redirected to the waiting state.
C23_Gating ==
    \A g \in GameIDs, pl \in PlayerIDs :
        /\ GamePageHandler(games[g], pl) \in {"page", "redirect"}
        /\ GamePageHandler(games[g], pl) = "page" <=>
              /\ games[g].Players[pl] \in Emojis
              /\ games[g].Status \in {"active", "finished", "draw"}

C23_FirstPlayerWaits ==
    \A g \in GameIDs, pl \in PlayerIDs :
        NumPlayers(games[g]) < MaxPlayersPerGame =>
            GamePageHandler(games[g], pl) = "redirect"

C23_GamePageGating == C23_Gating /\ C23_FirstPlayerWaits

\* --------------------------------------------------------------- C24
\* C24: simultaneous entry - the join request that puts the second player
\* into a game passes a "player_join" event and then a "game_ready" event to
\* BroadcastGameEvent before it answers, and the join request that puts the
\* first player in passes "player_join" only; a rejected join request makes
\* no Broadcast call; and the loop of a "game_ready" call enqueues the event
\* on every subscriber it visits whose channel has free capacity.
C24_AnswerStep ==
    \A j \in JoinIDs :
        (join[j].pc \in {"ready", "cast", "cast2"} /\ join'[j].pc = "redirect")
        => /\ join[j].nth = 2 => join'[j].cast = <<"player_join", "game_ready">>
           /\ join[j].nth = 1 => join'[j].cast = <<"player_join">>

C24_RejectedStep ==
    \A j \in JoinIDs :
        (join[j].pc = "rejected" \/ join'[j].pc = "rejected")
        => /\ join'[j].cast = <<>>
           /\ join'[j].frame = 0
           /\ (join'[j] # join[j] => UNCHANGED <<pub, issued, chanBuf>>)

C24_ReadyStep ==
    \A p \in Pubs :
        (/\ pub[p].pc = "loop" /\ pub'[p].i = pub[p].i + 1
         /\ pub[p].event.Type = "game_ready")
        => LET s == arrays[pub[p].subscribers.arr][pub[p].i + 1] IN
             Len(chanBuf[s]) < ChanCap =>
                chanBuf'[s] = Append(chanBuf[s], pub[p].event)

C24_SimultaneousEntry ==
    [][C24_AnswerStep /\ C24_RejectedStep /\ C24_ReadyStep]_vars

\* --------------------------------------------------------------- C25
\* C25: reset - when GameResetHandler has made its last assignment, every
\* cell of the game's board is empty, Status is active, Winner is empty,
\* MoveCount is 0 and CurrentTurn is 0; the handler's assignments leave
\* Players and PlayerOrder as they are; and a handler that answers has
\* passed a "reset" event and then a "game_status" event to its Broadcast
\* calls.
C25_LastWriteStep ==
    \A k \in ResetIDs :
        (rst[k].pc = "rest" /\ rst'[k].pc # "rest")
        => LET game == games'[rst[k].gameID] IN
             /\ game.Board = EmptyBoard
             /\ game.Status = "active"
             /\ game.Winner = ""
             /\ game.MoveCount = 0
             /\ game.CurrentTurn = 0

C25_PlayersStep ==
    \A k \in ResetIDs, g \in GameIDs :
        (GameResetHandler(k, g) \/ ResetRest(k))
        => /\ games'[g].Players = games[g].Players
           /\ games'[g].PlayerOrder = games[g].PlayerOrder

C25_EventsStep ==
    \A k \in ResetIDs :
        (rst[k].pc = "render" /\ rst'[k].pc = "idle")
        => rst[k].cast = <<"reset", "game_status">>

C25_Reset == [][C25_LastWriteStep /\ C25_PlayersStep /\ C25_EventsStep]_vars

\* --------------------------------------------------------------- C26
\* C26: games are isolated - a step of a join, move or reset request on a
\* game A leaves every other game B as it is: its Board, Players,
\* PlayerOrder, Status, CurrentTurn, Winner and MoveCount.
C26_StepOn(g) ==
    \/ \E j \in JoinIDs :
          join'[j] # join[j] /\ g \in {join[j].gameID, join'[j].gameID}
    \/ \E r \in ReqIDs :
          req'[r] # req[r] /\ g \in {req[r].gameID, req'[r].gameID}
    \/ \E k \in ResetIDs :
          rst'[k] # rst[k] /\ g \in {rst[k].gameID, rst'[k].gameID}

C26_IsolationStep ==
    \A a \in GameIDs : C26_StepOn(a) =>
        \A b \in GameIDs \ {a} :
            /\ games'[b].Board = games[b].Board
            /\ games'[b].Players = games[b].Players
            /\ games'[b].PlayerOrder = games[b].PlayerOrder
            /\ games'[b].Status = games[b].Status
            /\ games'[b].CurrentTurn = games[b].CurrentTurn
            /\ games'[b].Winner = games[b].Winner
            /\ games'[b].MoveCount = games[b].MoveCount

C26_GamesIsolated == [][C26_IsolationStep]_vars

\* two games are under way and differ in their board and their players,
\* and a join, a move and a reset request are in the middle of their
\* writes, the join and the reset on one game and the move on the other
C26_Witness ==
    \E a \in GameIDs, b \in GameIDs :
        /\ a # b
        /\ NumPlayers(games[a]) = 2 /\ NumPlayers(games[b]) = 1
        /\ games[a].Board # games[b].Board
        /\ \E r \in ReqIDs : req[r].pc = "count" /\ req[r].gameID = a
        /\ \E j \in JoinIDs : join[j].pc = "order" /\ join[j].gameID = b
        /\ \E k \in ResetIDs : rst[k].pc = "rest" /\ rst[k].gameID = b

\* --------------------------------------------------------------- C27
\* C27: first joiner moves first - when the join request that put the second
\* player in has updated the status, the game is active with CurrentTurn 0
\* and MoveCount 0, and the player on turn is PlayerOrder[0], the player
\* who joined first; and a game with one player has Status waiting and
\* nobody on turn.
C27_SecondJoinStep ==
    \A j \in JoinIDs :
        (join[j].pc = "status" /\ join'[j].pc = "ready" /\ join[j].nth = 2)
        => LET game == games'[join[j].gameID] IN
             /\ game.Status = "active"
             /\ game.CurrentTurn = 0
             /\ game.MoveCount = 0
             /\ Len(game.PlayerOrder) >= 1
             /\ GetCurrentPlayerID(game) = game.PlayerOrder[1]
             /\ game.PlayerOrder[1] # join[j].playerID

C27_OnePlayer ==
    \A g \in GameIDs :
        NumPlayers(games[g]) = 1 =>
            /\ games[g].Status = "waiting"
            /\ GetCurrentPlayerID(games[g]) = ""

C27_FirstJoinerFirst == []C27_OnePlayer /\ [][C27_SecondJoinStep]_vars

\* --------------------------------------------------------------- C28
\* C28: delivery is skipped for cancelled subscribers - when a Broadcast
\* call that began after the cancellation of a subscriber's context visits
\* the subscriber, it enqueues nothing on the subscriber's channel, whether
\* or not the channel has free capacity, and schedules the removal of the
\* subscriber.
C28_VisitStep ==
    \A p \in Pubs :
        (pub[p].pc = "loop" /\ pub'[p].i = pub[p].i + 1) =>
            LET s == arrays[pub[p].subscribers.arr][pub[p].i + 1]
                o == pub'[p].log[pub'[p].i].outcome
            IN s \in pub[p].cancelled =>
                  /\ chanBuf'[s] = chanBuf[s]
                  /\ o = "removal"

C28_SkipCancelled == [][C28_VisitStep]_vars

\* --------------------------------------------------------------- C29
\* C29: exactly one attempt per subscriber - when a Broadcast call returns,
\* every subscriber that was in the game's list when the call fetched it has
\* exactly one outcome in the call (enqueue, scheduled removal or drop): no
\* subscriber got the event twice and none was skipped, also when
\* RemoveGameSubscriber calls for other subscribers of the game ran during
\* the loop.
C29_OneAttempt ==
    \A p \in Pubs :
        pub[p].pc = "ret" =>
            /\ Len(pub[p].log) = Len(pub[p].fetched)
            /\ \A x \in 1..Len(pub[p].fetched) :
                  Cardinality({j \in 1..Len(pub[p].log) :
                                  pub[p].log[j].sub = pub[p].fetched[x]}) = 1
            /\ \A j \in 1..Len(pub[p].log) :
                  pub[p].log[j].outcome \in {"sent", "removal", "dropped"}

\* --------------------------------------------------------------- C30
\* C30: lock discipline - the operations on the subscriber table are
\* serialized as by one readers-writer lock: at most one mutation
\* (a CreateGameSubscriber between its read of the list and its store, a
\* RemoveGameSubscriber between its lookup and its return) is in progress
\* at any time, and no Broadcast call makes its lookup while a mutation is
\* in progress.
C30_Mutations ==
    {c \in Conns : hPc[c] = "append"}
    \cup {k \in RemIDs : rem[k].pc \in {"scan", "close", "cleanup"}}

C30_OneWriter == ~crashed => Cardinality(C30_Mutations) <= 1

C30_ReadStep ==
    \A p \in Pubs :
        (pub[p].pc = "idle" /\ pub'[p].pc # "idle") => C30_Mutations = {}

C30_LockDiscipline == []C30_OneWriter /\ [][C30_ReadStep]_vars

\* --------------------------------------------------------------- C31
\* C31: RemoveGameSubscriber(s) removes exactly s - a step of the call
\* leaves the lists of all other games as they are; it changes the list of
\* s's game at most by taking the entry of s out, the other entries staying
\* in their order; it closes no channel but that of s and takes no event
\* from a channel; and when the call returns without a panic, s is not in
\* the list of its game and its channel is closed.
C31_Without(seq, s) ==
    LET Keep(x) == x # s IN SelectSeq(seq, Keep)

C31_RemoveStep ==
    \A k \in RemIDs, s \in Conns, g \in GameIDs :
        (rem[k].pc # "idle" /\ rem'[k] # rem[k] /\ rem[k].sub = s
                            /\ subGame[s] = g) =>
               /\ \A h \in GameIDs \ {g} :
                     /\ gameSubscribers'[h] = gameSubscribers[h]
                     /\ Listed(h)' = Listed(h)
               /\ \/ Listed(g)' = Listed(g)
                  \/ Listed(g)' = C31_Without(Listed(g), s)
               /\ \A c \in Conns \ {s} : chanClosed'[c] = chanClosed[c]
               /\ chanBuf' = chanBuf
               /\ (rem[k].pc = "cleanup" /\ rem'[k].pc = "idle") =>
                     /\ \A j \in 1..gameSubscribers'[g].len :
                           Listed(g)'[j] # s
                     /\ chanClosed'[s] = 1

C31_RemoveExactly == [][C31_RemoveStep]_vars

\* ------------------------------------------------- the connection handler
\* "hangup" runs: two event-stream requests, for g1 or for a game that was
\* never created, one broadcast and one removal goroutine
Hangup == [conns |-> MaxConns, pubs |-> MaxPubs, async |-> MaxAsync,
           events |-> MaxEvents, status |-> 0, games |-> {"g1"},
           reqs |-> 0, marks |-> 0, cells |-> 0, joins |-> 0, resets |-> 0,
           players |-> {}]

\* the games a run has created: game.GetGame returns nil for any other ID
GameExists(g) == g \in load.games

\* gameData := game.GetGame(gameID); if gameData == nil { c.JSON(404); return }
SSENotFound(c, g) ==
    /\ ~crashed
    /\ hPc[c] = "idle"
    /\ c <= load.conns
    /\ ~GameExists(g)
    /\ \A d \in Conns : d < c => hPc[d] # "idle"
    /\ hPc' = [hPc EXCEPT ![c] = "done"]
    /\ UNCHANGED <<playVars, initialSent, load, joined, unscheduled, arrays,
                   gameSubscribers, subGame, chanBuf, chanClosed, ctxDone,
                   hRead, lastSent, rem, pub, issued, statusIssued, crashed,
                   removed, attempted>>

NextConn ==
    \/ Next
    \/ \E c \in Conns, g \in GameIDs : SSENotFound(c, g)

\* Every goroutine that can take a step is scheduled in the end: the
\* statements of a handler after its request arrived, the select of its
\* loop once the context is done (select picks among its ready cases at
\* random, so the Done case is taken in the end), and the statements of
\* RemoveGameSubscriber.
FairConn ==
    /\ \A c \in Conns : /\ WF_vars(CreateGameSubscriber(c))
                        /\ WF_vars(SSEInitial(c))
                        /\ WF_vars(SSEDone(c))
    /\ \A k \in RemIDs : /\ WF_vars(RemoveLookup(k))
                         /\ WF_vars(RemoveScan(k))
                         /\ WF_vars(RemoveClose(k))
                         /\ WF_vars(RemoveCleanup(k))

InitConn == load \in {Hangup, Backlog} /\ InitState

SpecConn == InitConn /\ [][NextConn]_vars /\ FairConn

\* --------------------------------------------------------------- C32
\* the number of entries of the table that hold the subscriber c
C32_Entries(c) ==
    Cardinality({<<g, j>> \in GameIDs \X (1..MaxConns) :
                    j <= gameSubscribers[g].len /\ Listed(g)[j] = c})

\* a handler for an existing game registers its subscriber once, in its
\* CreateGameSubscriber call; a handler for an unknown game changes nothing
\* of the table
C32_RegisterStep ==
    \A c \in Conns :
        /\ (hPc[c] = "append" /\ hPc'[c] = "initial") => C32_Entries(c)' = 1
        /\ (hPc[c] = "idle" /\ hPc'[c] = "done") =>
              /\ gameSubscribers' = gameSubscribers
              /\ arrays' = arrays

\* the subscriber of a handler that has returned is not in the table
C32_GoneAfterReturn ==
    \A c \in Conns : hPc[c] = "done" => C32_Entries(c) = 0

\* a handler whose context is cancelled returns
C32_Returns ==
    \A c \in Conns :
        (ctxDone[c] /\ hPc[c] \in {"append", "initial", "loop"}) ~> (hPc[c] = "done")

\* C32: one subscriber per open connection - a GameSSEHandler call for an
\* existing game registers exactly one subscriber, a call for an unknown
\* game registers nothing, a handler whose context is cancelled leaves its
\* loop and returns, and the subscriber of a returned handler is not in the
\* table.
C32_OnePerConnection ==
    /\ [][C32_RegisterStep]_vars
    /\ []C32_GoneAfterReturn
    /\ C32_Returns

\* --------------------------------------------------------------- C33
\* the fields of a game that AddPlayerToGame can write
C33_Fields(game) ==
    <<game.Players, game.PlayerOrder, game.Status, game.CurrentTurn,
      game.MoveCount>>

\* the writes of a call: a call that returns an error writes nothing; a call
\* that returns nil writes the entry of its player into Players and appends
\* its player to PlayerOrder, and nothing else of the two
C33_WriteStep ==
    \A j \in JoinIDs, g \in GameIDs, pl \in PlayerIDs :
        (join'[j] # join[j] /\ join'[j].gameID = g) =>
            /\ join'[j].pc = "rejected" => C33_Fields(games'[g]) = C33_Fields(games[g])
            /\ (join[j].pc = "put" /\ join[j].playerID = pl) =>
                  /\ games'[g].Players = [games[g].Players EXCEPT ![pl] = join[j].emoji]
                  /\ games'[g].PlayerOrder = games[g].PlayerOrder
            /\ (join[j].pc = "order" /\ join[j].playerID = pl) =>
                  /\ games'[g].Players = games[g].Players
                  /\ games'[g].PlayerOrder = Append(games[g].PlayerOrder, pl)
            /\ join[j].pc = "status" =>
                  /\ games'[g].Players = games[g].Players
                  /\ games'[g].PlayerOrder = games[g].PlayerOrder

\* the player a call puts in is new: the game did not have it
C33_NewStep ==
    \A j \in JoinIDs, g \in GameIDs, pl \in PlayerIDs :
        (join[j].gameID = g /\ join[j].playerID = pl) =>
            /\ (join[j].pc = "put" /\ join'[j].pc = "order") =>
                  games[g].Players[pl] = ""
            /\ (join[j].pc = "order" /\ join'[j].pc = "status") =>
                  \A n \in 1..Len(games[g].PlayerOrder) :
                      games[g].PlayerOrder[n] # pl

\* C33: AddPlayerToGame is all-or-nothing - a call that returns an error
\* leaves Players, PlayerOrder, Status, CurrentTurn and MoveCount of the game
\* as they are; a call that returns nil adds exactly its new player to
\* Players and appends it to PlayerOrder.
C33_AllOrNothing == [][C33_WriteStep /\ C33_NewStep]_vars

\* --------------------------------------------------------------- C34
\* the number of cells that hold the emoji of the n-th player of PlayerOrder
C34_Marks(game, n) ==
    IF Len(game.PlayerOrder) >= n /\ game.Players[game.PlayerOrder[n]] # ""
    THEN Cardinality({k \in 1..BoardCells :
                        game.Board[k] = game.Players[game.PlayerOrder[n]]})
    ELSE 0

\* C34: mark balance - in every reachable state of a game, also while move
\* requests run in parallel, the cells with the first player's emoji are as
\* many as the cells with the second player's emoji, or one more.
C34_MarkBalance ==
    \A g \in GameIDs :
        C34_Marks(games[g], 1) - C34_Marks(games[g], 2) \in {0, 1}

\* --------------------------------------------------------------- C35
\* C35: active implies two players - in every reachable state a game whose
\* Status is active, finished or draw has exactly two players, and a game
\* with fewer than two players has Status waiting.
C35_ActiveImpliesTwo ==
    \A g \in GameIDs :
        /\ games[g].Status \in {"active", "finished", "draw"} =>
              NumPlayers(games[g]) = MaxPlayersPerGame
        /\ NumPlayers(games[g]) < MaxPlayersPerGame =>
              games[g].Status = "waiting"

\* --------------------------------------------------------------- C36
\* a complete line of the board holds the emoji e
C36_LineOf(board, e) ==
    \E k \in 1..Len(Lines) :
        \A n \in 1..3 : board[Lines[k][n]] = e

\* C36: winner/status agreement - in every reachable state Winner is
\* non-empty exactly when Status is finished, and a non-empty Winner is the
\* ID of a player of the game whose emoji fills a complete line of the board.
C36_WinnerAgreesWithStatus ==
    \A g \in GameIDs :
        /\ games[g].Winner # "" <=> games[g].Status = "finished"
        /\ games[g].Winner # "" =>
              /\ games[g].Winner \in PlayerIDs
              /\ games[g].Players[games[g].Winner] # ""
              /\ C36_LineOf(games[g].Board, games[g].Players[games[g].Winner])

\* --------------------------------------------------------------- C37
\* C37: move count - in every reachable state a game's MoveCount is the
\* number of non-empty cells of its board, and every non-empty cell holds
\* the emoji of one of the game's players.
C37_MoveCountIsMarks ==
    \A g \in GameIDs :
        /\ games[g].MoveCount =
              Cardinality({k \in 1..BoardCells : games[g].Board[k] # ""})
        /\ \A k \in 1..BoardCells :
              games[g].Board[k] # "" =>
                 \E pl \in PlayerIDs : games[g].Players[pl] = games[g].Board[k]

\* --------------------------------------------------------------- C38
\* C38: the connection handler forwards only real events - every event the
\* loop of GameSSEHandler receives and passes to sendSSEEvent is the event
\* at the head of its channel, enqueued by a Broadcast call for its game;
\* it never is the zero value of a closed channel.
C38_ReceiveStep ==
    \A c \in Conns :
        (hPc[c] = "loop" /\ lastSent'[c] # lastSent[c]) =>
            /\ chanBuf[c] # <<>>
            /\ lastSent'[c] = Head(chanBuf[c])
            /\ lastSent'[c] # ZeroEvent
            /\ lastSent'[c].GameID = subGame[c]
            /\ lastSent'[c].n \in 1..issued[subGame[c]]

C38_OnlyRealEvents == [][C38_ReceiveStep]_vars

====
